---------------------------- MODULE Spec2Model ----------------------------
(***************************************************************************)
(* A model of takumitools' CodeGenerator (src/takumitools/                 *)
(* code_generator.py): the translation of an OpenAPI-style document into   *)
(* client source text, the files it writes, and the behaviour of the       *)
(* emitted methods when they are called.                                   *)
(*                                                                         *)
(* Representation.  A Python str is a sequence of atomic tokens            *)
(* ("/", "users", "{", "id", "}", ...).  A Python dict with a fixed set of *)
(* known keys (an operation, a parameter, a response, a schema) is a TLA+  *)
(* record whose DOMAIN is the set of keys present; a dict that is iterated *)
(* (paths, a path item, responses, content, properties) is a sequence of   *)
(* <<key, value>> pairs in insertion order.  Emitted source text is a      *)
(* sequence of lines; a line is [ind, kind, a]: the number of leading      *)
(* spaces, the statement form and the strings spliced into it.             *)
(*                                                                         *)
(* Input domain.  Every media-type object carries a schema that has a      *)
(* properties mapping; parameter and body-field names are distinct within  *)
(* an operation.                                                           *)
(***************************************************************************)
EXTENDS Naturals, Sequences, FiniteSets, TLC

VARIABLES
    spec,      \* self.spec["paths"]: the document
    input,     \* the argument of the directly invoked synthesizer functions
    pc,        \* position of the run
    pi,        \* index of the path generate_code is at
    oi,        \* index of the operation the list comprehension is at
    methods,   \* the local list `methods` of _generate_nested_class_hierarchy
    fs,        \* the output directory: file name -> content
    writes,    \* every _write_to_file call so far, in order
    err,       \* the exception that aborted the run, or "none"
    ret,       \* the value the last directly invoked function returned
    ncalls,    \* number of direct invocations so far
    result     \* the arguments of the last make_request call of emitted code

vars == <<spec, input, pc, pi, oi, methods, fs, writes, err, ret, ncalls, result>>

---------------------------------------------------------------------------
(* Bounds of the model *)

MaxPaths == 2
MaxParams == 2
MaxProps == 2
MaxResponses == 2
MaxCalls == 2

---------------------------------------------------------------------------
(* Python values *)

None == [t |-> "none"]
StrVal(s) == [t |-> "str", s |-> s]
DictVal(d) == [t |-> "dict", d |-> d]
IsNone(v) == v.t = "none"

\* dict.get(k, default) on a record-shaped dict
Get(d, k, default) == IF k \in DOMAIN d THEN d[k] ELSE default

\* k in d, and d[k], on an ordered dict
HasKey(d, k) == \E i \in 1..Len(d) : d[i][1] = k
Lookup(d, k) == d[CHOOSE i \in 1..Len(d) : d[i][1] = k][2]

\* x in list
InList(x, list) == \E i \in 1..Len(list) : list[i] = x

---------------------------------------------------------------------------
(* str methods *)

RECURSIVE LStrip(_, _)
LStrip(s, ch) ==
    IF s # <<>> /\ Head(s) = ch THEN LStrip(Tail(s), ch) ELSE s

RECURSIVE RStrip(_, _)
RStrip(s, ch) ==
    IF s # <<>> /\ s[Len(s)] = ch
    THEN RStrip(SubSeq(s, 1, Len(s) - 1), ch)
    ELSE s

Strip(s, ch) == RStrip(LStrip(s, ch), ch)

RECURSIVE Split(_, _)
Split(s, sep) ==
    IF \E i \in 1..Len(s) : s[i] = sep
    THEN LET i == CHOOSE i \in 1..Len(s) :
                      s[i] = sep /\ \A j \in 1..(i - 1) : s[j] # sep
         IN  <<SubSeq(s, 1, i - 1)>> \o Split(SubSeq(s, i + 1, Len(s)), sep)
    ELSE <<s>>

RECURSIVE Join(_, _)
Join(parts, sep) ==
    IF parts = <<>> THEN <<>>
    ELSE IF Len(parts) = 1 THEN parts[1]
    ELSE parts[1] \o sep \o Join(Tail(parts), sep)

LowerTok(t) ==
    CASE t \in {"get", "Get", "GET"} -> "get"
      [] t \in {"post", "Post", "POST"} -> "post"
      [] t \in {"users", "Users", "USERS"} -> "users"
      [] t \in {"files", "Files"} -> "files"
      [] t \in {"posts", "Posts"} -> "posts"
      [] t \in {"user", "User"} -> "user"
      [] t \in {"profile", "Profile"} -> "profile"
      [] t \in {"id", "Id", "ID"} -> "id"
      [] t \in {"responsemodel", "ResponseModel"} -> "responsemodel"
      [] OTHER -> t

UpperTok(t) ==
    CASE LowerTok(t) = "get" -> "GET"
      [] LowerTok(t) = "post" -> "POST"
      [] LowerTok(t) = "users" -> "USERS"
      [] LowerTok(t) = "id" -> "ID"
      [] OTHER -> t

CapTok(t) ==
    CASE LowerTok(t) = "get" -> "Get"
      [] LowerTok(t) = "post" -> "Post"
      [] LowerTok(t) = "users" -> "Users"
      [] LowerTok(t) = "files" -> "Files"
      [] LowerTok(t) = "posts" -> "Posts"
      [] LowerTok(t) = "user" -> "User"
      [] LowerTok(t) = "profile" -> "Profile"
      [] LowerTok(t) = "id" -> "Id"
      [] OTHER -> t

Lower(s) == [i \in 1..Len(s) |-> LowerTok(s[i])]
Upper(s) == [i \in 1..Len(s) |-> UpperTok(s[i])]

\* str.capitalize(): first character upper-cased, the rest lower-cased
Capitalize(s) ==
    [i \in 1..Len(s) |-> IF i = 1 THEN CapTok(s[i]) ELSE LowerTok(s[i])]

\* whether `old` occurs in s at position i
Occurs(s, old, i) ==
    /\ i + Len(old) - 1 <= Len(s)
    /\ \A j \in 1..Len(old) : s[i + j - 1] = old[j]

RECURSIVE Replace(_, _, _)
\* str.replace(old, new) for a non-empty old
Replace(s, old, new) ==
    IF s = <<>> THEN <<>>
    ELSE IF Occurs(s, old, 1)
         THEN new \o Replace(SubSeq(s, Len(old) + 1, Len(s)), old, new)
         ELSE <<Head(s)>> \o Replace(Tail(s), old, new)

RECURSIVE FString(_, _)
\* An f-string literal with one replacement field, evaluated: "{{" and "}}"
\* are escapes for one brace, "{" ... "}" is the field, which takes `value`.
FString(literal, value) ==
    IF literal = <<>> THEN <<>>
    ELSE IF Len(literal) >= 2 /\ literal[1] = "{" /\ literal[2] = "{"
         THEN <<"{">> \o FString(SubSeq(literal, 3, Len(literal)), value)
    ELSE IF Len(literal) >= 2 /\ literal[1] = "}" /\ literal[2] = "}"
         THEN <<"}">> \o FString(SubSeq(literal, 3, Len(literal)), value)
    ELSE IF literal[1] = "{"
         THEN LET close == CHOOSE i \in 2..Len(literal) :
                               literal[i] = "}" /\ \A j \in 2..(i - 1) : literal[j] # "}"
              IN  value \o FString(SubSeq(literal, close + 1, Len(literal)), value)
    ELSE <<Head(literal)>> \o FString(Tail(literal), value)

---------------------------------------------------------------------------
(* Emitted text and the output directory *)

Line(ind, kind, a) == [ind |-> ind, kind |-> kind, a |-> a]

NoFiles == [n \in {} |-> <<>>]

\* _write_to_file: open(..., "w") replaces the file's content
WriteToFile(st, filename, content) ==
    [fs |-> [n \in DOMAIN st.fs \cup {filename} |->
                IF n = filename THEN content ELSE st.fs[n]],
     writes |-> Append(st.writes, [name |-> filename, content |-> content])]

---------------------------------------------------------------------------
(* 4.3 Parameter and schema type mapper *)

GetParamType(param) ==
    LET param_type == Get(param, "type", "string")
    IN  CASE param_type = "string" -> "str"
          [] param_type = "integer" -> "int"
          [] param_type = "boolean" -> "bool"
          [] param_type = "array" -> "list"
          [] param_type = "object" -> "Dict[str, Any]"
          [] OTHER -> "Any"

ConvertToClassName(segment) ==
    LET words == Split(segment, "_")
        RECURSIVE Cat(_)
        Cat(ws) == IF ws = <<>> THEN <<>> ELSE Capitalize(Head(ws)) \o Cat(Tail(ws))
    IN  Cat(words)

GenerateMethodName(operation_id, http_method) ==
    IF operation_id # <<>> THEN operation_id ELSE Lower(http_method)

---------------------------------------------------------------------------
(* 4.4 Response model synthesizer *)

ModelClassName == <<"ResponseModel">>
ModelFileName == Lower(ModelClassName) \o <<".py">>

\* a required flag read from the property's own details instead of the
\* schema's required list
IsRequiredFromDetails(schema, prop_name) ==
    Get(Lookup(schema.properties, prop_name), "required", FALSE)

\* required = prop_name in schema.get("required", [])
IsRequired(schema, prop_name) == InList(prop_name, Get(schema, "required", <<>>))

\* the text _create_model_class builds
ModelCode(schema) ==
    LET props == schema.properties
    IN  <<Line(0, "class", <<ModelClassName, <<"BaseModel">>>>)>> \o
        [i \in 1..Len(props) |->
            Line(4, "field",
                 <<props[i][1],
                   <<GetParamType(props[i][2])>>,
                   IF IsRequired(schema, props[i][1]) THEN <<"...">> ELSE <<"None">>>>)]

\* _create_model_class on the file state st: [st, ret]
CreateModelClassOn(st, schema) ==
    [st |-> WriteToFile(st, ModelFileName, ModelCode(schema)),
     ret |-> StrVal(ModelClassName)]

RECURSIVE GenerateResponseModelOn(_, _)
\* _generate_response_model on the file state st: [st, ret, raised]
GenerateResponseModelOn(st, responses) ==
    IF responses = <<>> THEN [st |-> st, ret |-> None, raised |-> "none"]
    ELSE LET response == responses[1][2]
         IN  IF "content" \notin DOMAIN response
             THEN [st |-> st, ret |-> None, raised |-> "KeyError: 'content'"]
             ELSE IF HasKey(response.content, "application/json")
                  THEN LET r == CreateModelClassOn(
                                    st, Lookup(response.content, "application/json").schema)
                       IN  [st |-> r.st, ret |-> r.ret, raised |-> "none"]
                  ELSE GenerateResponseModelOn(st, Tail(responses))

---------------------------------------------------------------------------
(* 4.2 Operation method synthesizer *)

\* the annotation _generate_params_code gives a parameter
Annotation(param_type, required) ==
    IF required THEN <<": ", param_type>>
    ELSE <<": Optional[", param_type, "] = None">>

\* request_body["content"]["application/json"]["schema"]
BodySchema(request_body) == Lookup(request_body.content, "application/json").schema

\* `if request_body:` and `if operation.get("requestBody"):`
Truthy(request_body) == request_body # None /\ DOMAIN request_body # {}

\* _generate_params_code: [params_code, params_list, body_params, raised]
GenerateParamsCode(parameters, request_body) ==
    LET sig == [i \in 1..Len(parameters) |->
                   parameters[i].name \o
                   Annotation(GetParamType(parameters[i]),
                              Get(parameters[i], "required", FALSE))]
        params_list == [i \in 1..Len(parameters) |->
                           [name |-> parameters[i].name,
                            in |-> parameters[i].in,
                            description |-> Get(parameters[i], "description", <<>>)]]
    IN  IF ~Truthy(request_body)
        THEN [params_code |-> Join(sig, <<", ">>), params_list |-> params_list,
              body_params |-> <<>>, raised |-> "none"]
        ELSE IF ~HasKey(request_body.content, "application/json")
        THEN [params_code |-> <<>>, params_list |-> <<>>,
              body_params |-> <<>>, raised |-> "KeyError: 'application/json'"]
        ELSE LET schema == BodySchema(request_body)
                 props == schema.properties
                 bsig == [i \in 1..Len(props) |->
                             props[i][1] \o
                             Annotation(GetParamType(props[i][2]),
                                        IsRequired(schema, props[i][1]))]
             IN  [params_code |-> Join(sig \o bsig, <<", ">>),
                  params_list |-> params_list,
                  body_params |-> [i \in 1..Len(props) |->
                                      [name |-> props[i][1],
                                       type |-> GetParamType(props[i][2])]],
                  raised |-> "none"]

\* the f-string literal inside the quotes of line 71, NAME standing for
\* the replacement field param['name']
ReplaceLiteral == <<"{", "{", "{", "{", "{", "NAME", "}", "}", "}", "}", "}">>

\* the search token the emitted replace statement carries
PlaceholderToken(name) == FString(ReplaceLiteral, name)

\* lines 68-71
PathLines(path, params_list) ==
    <<Line(8, "path_assign", <<path>>)>> \o
    [i \in 1..Len(SelectSeq(params_list, LAMBDA p : p.in = "path")) |->
        LET p == SelectSeq(params_list, LAMBDA q : q.in = "path")[i]
        IN  Line(8, "path_replace", <<PlaceholderToken(p.name), p.name>>)]

\* lines 73-83
BodyLines(body_params) ==
    IF body_params # <<>>
    THEN <<Line(8, "body_dict", [i \in 1..Len(body_params) |-> body_params[i].name]),
           Line(8, "body_strip", <<>>)>>
    ELSE <<Line(8, "body_none", <<>>)>>

\* lines 85-95
HeaderLines(operation) ==
    <<Line(8, "headers_init", <<>>)>> \o
    (IF Truthy(Get(operation, "requestBody", None))
     THEN LET content == operation.requestBody.content
              known == SelectSeq(content, LAMBDA c :
                           c[1] \in {"application/json", "multipart/form-data"})
          IN  [i \in 1..Len(known) |-> Line(8, "headers_set", <<<<known[i][1]>>>>)]
     ELSE <<>>)

\* lines 97-110
QueryLines(params_list) ==
    IF \E i \in 1..Len(params_list) : params_list[i].in = "query"
    THEN LET query == SelectSeq(params_list, LAMBDA p : p.in = "query")
         IN  <<Line(8, "params_dict", [i \in 1..Len(query) |-> query[i].name]),
               Line(8, "params_strip", <<>>)>>
    ELSE <<Line(8, "params_none", <<>>)>>

\* lines 61-66
DocLines(path, operation, params_list) ==
    <<Line(8, "doc_open", <<>>),
      Line(8, "doc", <<Get(operation, "summary", <<>>)>>),
      Line(0, "blank", <<>>),
      Line(8, "doc_path", <<path>>)>> \o
    [i \in 1..Len(params_list) |->
        Line(8, "doc_param", <<params_list[i].name, params_list[i].description>>)] \o
    <<Line(8, "doc_return", <<>>), Line(8, "doc_close", <<>>)>>

\* lines 112-126
DispatchLines(http_method, response_model) ==
    <<Line(8, "factory", <<>>),
      Line(8, "handler", <<Upper(http_method)>>),
      Line(8, "response_model",
           <<IF ~IsNone(response_model) THEN response_model.s ELSE <<"None">>>>),
      Line(8, "return_open", <<>>),
      Line(12, "arg", <<<<"path">>>>),
      Line(12, "arg", <<<<"headers">>>>),
      Line(12, "arg", <<<<"params">>>>),
      Line(12, "arg", <<<<"body">>>>),
      Line(12, "arg", <<<<"response_model">>>>),
      Line(8, "return_close", <<>>)>>

\* the name line 53-55 resolves
MethodName(http_method, path, operation) ==
    GenerateMethodName(Get(operation, "operationId", path), http_method)

\* _generate_method on the file state st: [st, code, raised]
GenerateMethodOn(st, http_method, path, operation) ==
    LET pr == GenerateParamsCode(Get(operation, "parameters", <<>>),
                                 Get(operation, "requestBody", None))
    IN  IF pr.raised # "none"
        THEN [st |-> st, code |-> <<>>, raised |-> pr.raised]
        ELSE LET rm == GenerateResponseModelOn(st, Get(operation, "responses", <<>>))
             IN  IF rm.raised # "none"
                 THEN [st |-> rm.st, code |-> <<>>, raised |-> rm.raised]
                 ELSE [st |-> rm.st,
                       code |->
                           <<Line(0, "def", <<MethodName(http_method, path, operation),
                                              pr.params_code>>)>> \o
                           DocLines(path, operation, pr.params_list) \o
                           PathLines(path, pr.params_list) \o
                           BodyLines(pr.body_params) \o
                           HeaderLines(operation) \o
                           QueryLines(pr.params_list) \o
                           DispatchLines(http_method, rm.ret),
                       raised |-> "none"]

---------------------------------------------------------------------------
(* 4.1 Namespace hierarchy builder *)

PathSegments(path) == Split(Strip(path, "/"), "/")

ClassNameHierarchy(path) ==
    [i \in 1..Len(PathSegments(path)) |-> ConvertToClassName(PathSegments(path)[i])]

FullClassName(path) == Join(ClassNameHierarchy(path), <<".">>)

RECURSIVE ClassHeaders(_, _)
\* lines 35-44: the declarations of the classes names[i..], class i
\* indented i-1 levels
ClassHeaders(names, i) ==
    IF i > Len(names) THEN <<>>
    ELSE <<Line(4 * (i - 1), "class", <<names[i]>>),
           Line(4 * (i - 1) + 4, "init_def", <<>>),
           Line(4 * (i - 1) + 8, "init_client", <<>>),
           Line(4 * (i - 1) + 8, "init_factory", <<>>),
           Line(0, "blank", <<>>)>> \o ClassHeaders(names, i + 1)

\* line 48: indent + method_code + "\n" prefixes the first line only
PlaceMethod(indent, method_code) ==
    [i \in 1..Len(method_code) |->
        IF i = 1 THEN [method_code[i] EXCEPT !.ind = @ + indent] ELSE method_code[i]]
    \o <<Line(0, "blank", <<>>)>>

RECURSIVE PlaceMethods(_, _)
PlaceMethods(indent, method_list) ==
    IF method_list = <<>> THEN <<>>
    ELSE PlaceMethod(indent, Head(method_list)) \o PlaceMethods(indent, Tail(method_list))

\* lines 32-50: the class text for the methods already generated
ClassCode(path, method_list) ==
    ClassHeaders(ClassNameHierarchy(path), 1) \o
    PlaceMethods(4 * Len(PathSegments(path)), method_list)

\* line 21
ClassFileName(path) == FullClassName(path) \o <<".py">>

---------------------------------------------------------------------------
(* 4.5 Emitter: the index unit *)

\* lines 207-211
InitContent(paths) ==
    <<Line(0, "import", <<<<"apiclient_base">>, <<"APIClientBase">>>>)>> \o
    [i \in 1..Len(paths) |->
        LET class_name == ConvertToClassName(PathSegments(paths[i][1])[1])
        IN  Line(0, "import", <<class_name, class_name>>)]

InitFileName == <<"__init__", ".py">>

---------------------------------------------------------------------------
(* The emitted method, called: Python's execution of the emitted lines *)

Punctuation == {"/", "{", "}", ".", ", ", ": ", ": Optional[", "] = None", "'"}

\* a str Python accepts as a name
Identifier(s) == s # <<>> /\ \A i \in 1..Len(s) : s[i] \notin Punctuation

\* the entries of the signature on a def line: [name, optional]
Signature(def_line) ==
    LET code == def_line.a[2]
        entries == IF code = <<>> THEN <<>> ELSE Split(code, ", ")
        NameOf(e) == SubSeq(e, 1, (CHOOSE i \in 1..Len(e) :
                                      /\ e[i] \in {": ", ": Optional["}
                                      /\ \A j \in 1..(i - 1) :
                                             e[j] \notin {": ", ": Optional["}) - 1)
    IN  [i \in 1..Len(entries) |->
            [name |-> NameOf(entries[i]),
             optional |-> \E j \in 1..Len(entries[i]) : entries[i][j] = ": Optional["]]

\* the last line of the method whose def line is content[i]
MethodEnd(content, i) ==
    IF \E j \in (i + 1)..Len(content) : content[j].kind \in {"def", "class"}
    THEN (CHOOSE j \in (i + 1)..Len(content) :
              /\ content[j].kind \in {"def", "class"}
              /\ \A k \in (i + 1)..(j - 1) : content[k].kind \notin {"def", "class"}) - 1
    ELSE Len(content)

MethodAt(content, i) == SubSeq(content, i, MethodEnd(content, i))

\* whether Python compiles the unit and the method whose def line is
\* content[i]: names are identifiers, parameters are distinct, no parameter
\* without a default follows one with a default, and the body is indented
\* deeper than its def line
Runnable(content, i) ==
    LET code == MethodAt(content, i)
        sig == Signature(code[1])
    IN  /\ \A j \in 1..Len(content) :
               content[j].kind = "class" => Identifier(content[j].a[1])
        /\ Identifier(code[1].a[1])
        /\ \A j \in 1..Len(sig) :
               /\ Identifier(sig[j].name)
               /\ sig[j].name # <<"self">>
               /\ \A k \in 1..Len(sig) : k # j => sig[k].name # sig[j].name
               /\ \A k \in 1..(j - 1) : sig[k].optional => sig[j].optional
        /\ \A j \in 2..Len(code) :
               code[j].kind # "blank" => code[j].ind > code[1].ind

\* str(v) for the values a path parameter is bound to
PyStr(v) == IF IsNone(v) THEN <<"None">> ELSE v.s

\* name = value in the method's local namespace
Bind(env, name, value) ==
    [n \in DOMAIN env \cup {name} |-> IF n = name THEN value ELSE env[n]]

\* {k: v for k, v in d.items() if v is not None}
StripNone(d) == DictVal(SelectSeq(d.d, LAMBDA kv : ~IsNone(kv[2])))

\* { 'n1': n1, 'n2': n2, ... } evaluated in env
DictDisplay(env, names) == DictVal([i \in 1..Len(names) |-> <<names[i], env[names[i]]>>])

\* one emitted statement executed in the namespace env
Exec(env, line) ==
    CASE line.kind = "path_assign" -> Bind(env, <<"path">>, StrVal(line.a[1]))
      [] line.kind = "path_replace" ->
            Bind(env, <<"path">>,
                 StrVal(Replace(env[<<"path">>].s, line.a[1], PyStr(env[line.a[2]]))))
      [] line.kind = "body_dict" -> Bind(env, <<"body">>, DictDisplay(env, line.a))
      [] line.kind = "body_strip" -> Bind(env, <<"body">>, StripNone(env[<<"body">>]))
      [] line.kind = "body_none" -> Bind(env, <<"body">>, None)
      [] line.kind = "headers_init" -> Bind(env, <<"headers">>, DictVal(<<>>))
      [] line.kind = "headers_set" ->
            Bind(env, <<"headers">>,
                 DictVal(SelectSeq(env[<<"headers">>].d,
                                   LAMBDA kv : kv[1] # <<"Content-Type">>)
                         \o <<<<<<"Content-Type">>, StrVal(line.a[1])>>>>))
      [] line.kind = "params_dict" -> Bind(env, <<"params">>, DictDisplay(env, line.a))
      [] line.kind = "params_strip" -> Bind(env, <<"params">>, StripNone(env[<<"params">>]))
      [] line.kind = "params_none" -> Bind(env, <<"params">>, None)
      [] line.kind = "response_model" ->
            Bind(env, <<"response_model">>,
                 IF line.a[1] = <<"None">> THEN None ELSE StrVal(line.a[1]))
      [] OTHER -> env

RECURSIVE ExecAll(_, _)
ExecAll(env, code) ==
    IF code = <<>> THEN env ELSE ExecAll(Exec(env, Head(code)), Tail(code))

\* the arguments handler.make_request receives when the method is called
\* with its parameters bound as in `bound`
RunMethod(code, bound) ==
    LET env == ExecAll(bound, Tail(code))
    IN  [path |-> env[<<"path">>], headers |-> env[<<"headers">>],
         params |-> env[<<"params">>], body |-> env[<<"body">>],
         response_model |-> env[<<"response_model">>]]

---------------------------------------------------------------------------
(* Input domains *)

\* the sequences of at most n distinct elements of S
DistinctSeqs(S, n) ==
    UNION {{q \in [1..k -> S] : \A i, j \in 1..k : i # j => q[i] # q[j]} : k \in 0..n}

\* the ordered dicts with the keys keys[1..k], k <= n, and values in V
OrderedDicts(keys, V, n) ==
    UNION {{[i \in 1..k |-> <<keys[i], v[i]>>] : v \in [1..k -> V]} : k \in 0..n}

PropPool ==
    {<<<<"a">>, [type |-> "string"]>>,
     <<<<"b">>, [type |-> "integer"]>>,
     <<<<"c">>, [format |-> "date"]>>,
     <<<<"d">>, [type |-> "float"]>>}

RequiredLists ==
    {<<>>, <<<<"a">>>>, <<<<"b">>>>, <<<<"c">>, <<"a">>>>, <<<<"b">>, <<"d">>>>}

Schemas ==
    {[properties |-> ps] : ps \in DistinctSeqs(PropPool, MaxProps)} \cup
    {[properties |-> ps, required |-> r] :
        ps \in DistinctSeqs(PropPool, MaxProps), r \in RequiredLists}

SchemaAB ==
    [properties |-> <<<<<<"a">>, [type |-> "string"]>>, <<<<"b">>, [type |-> "integer"]>>>>,
     required |-> <<<<"a">>>>]

SchemaName ==
    [properties |-> <<<<<<"name">>, [type |-> "string"]>>>>, required |-> <<<<"name">>>>]

SchemaTitle == [properties |-> <<<<<<"title">>, [type |-> "string"]>>>>]

ResponsePool ==
    {[description |-> <<"ok">>,
      content |-> <<<<"application/json", [schema |-> SchemaAB]>>>>],
     [description |-> <<"ok">>,
      content |-> <<<<"text/plain", [schema |-> SchemaTitle]>>,
                    <<"application/json", [schema |-> SchemaName]>>>>],
     [description |-> <<"ok">>,
      content |-> <<<<"text/plain", [schema |-> SchemaTitle]>>>>],
     [description |-> <<"No Content">>]}

StatusCodes == <<"200", "204", "404", "500">>

ResponseMaps == OrderedDicts(StatusCodes, ResponsePool, MaxResponses)

ParamPool ==
    {[name |-> <<"id">>, in |-> "path", required |-> TRUE, type |-> "string",
      description |-> <<"the id">>],
     [name |-> <<"q1">>, in |-> "query", type |-> "string"],
     [name |-> <<"q2">>, in |-> "query", type |-> "integer"],
     [name |-> <<"path">>, in |-> "query"],
     [name |-> <<"token">>, in |-> "header", type |-> "uuid"]}

ParamLists == DistinctSeqs(ParamPool, MaxParams)

RequestBodies ==
    {[content |-> <<<<"application/json", [schema |-> SchemaTitle]>>>>],
     [content |-> <<<<"text/plain", [schema |-> SchemaTitle]>>>>],
     [content |-> <<<<"application/json", [schema |-> SchemaTitle]>>,
                    <<"multipart/form-data", [schema |-> SchemaTitle]>>>>]}

OperationIds == {<<"getUser">>}

MethodResponses ==
    {r \in ResponseMaps : Len(r) <= 1} \cup
    {<<<<"204", [description |-> <<"No Content">>]>>,
       <<"200", [description |-> <<"ok">>,
                 content |-> <<<<"application/json", [schema |-> SchemaName]>>>>]>>>>}

\* the operations the method synthesizer is run on: every combination of
\* operationId, parameters, requestBody and responses, each key present or not
Operations ==
    LET Base == {[responses |-> r] : r \in MethodResponses} \cup {[summary |-> <<"s">>]}
        WithId == Base \cup
                  {[k \in DOMAIN o \cup {"operationId"} |->
                       IF k = "operationId" THEN id ELSE o[k]] :
                   o \in Base, id \in OperationIds}
        WithParams == WithId \cup
                  {[k \in DOMAIN o \cup {"parameters"} |->
                       IF k = "parameters" THEN ps ELSE o[k]] :
                   o \in WithId, ps \in ParamLists \ {<<>>}}
    IN  WithParams \cup
        {[k \in DOMAIN o \cup {"requestBody"} |->
             IF k = "requestBody" THEN b ELSE o[k]] :
         o \in WithParams, b \in RequestBodies}

P_files == <<"/", "files">>
P_users == <<"/", "users">>
P_user_id == <<"/", "users", "/", "{", "id", "}">>
P_user_posts == <<"/", "users", "/", "{", "id", "}", "/", "posts">>
P_user_profile == <<"/", "user", "_", "profile">>

MethodPaths == {P_files, P_user_id}
HttpMethods == {<<"get">>, <<"POST">>}

\* whether every path-location parameter of the operation has its
\* placeholder in the path template
PlaceholdersPresent(path, operation) ==
    \A i \in 1..Len(Get(operation, "parameters", <<>>)) :
        LET p == operation.parameters[i]
        IN  p.in = "path" =>
                \E at \in 1..Len(path) : Occurs(path, <<"{">> \o p.name \o <<"}">>, at)

\* documents of one path and one operation
MethodDocs ==
    {d \in {<<<<p, <<<<m, o>>>>>>>> : p \in MethodPaths, m \in HttpMethods, o \in Operations} :
        PlaceholdersPresent(d[1][1], d[1][2][1][2])}

OpList == [operationId |-> <<"listUsers">>, responses |-> <<>>]
OpGet ==
    [operationId |-> <<"getUser">>,
     parameters |-> <<[name |-> <<"q1">>, in |-> "query", type |-> "string"]>>,
     responses |-> <<<<"200", [description |-> <<"ok">>,
                               content |-> <<<<"application/json",
                                               [schema |-> SchemaName]>>>>]>>>>]
OpCreate ==
    [operationId |-> <<"createUser">>,
     requestBody |-> [content |-> <<<<"application/json", [schema |-> SchemaTitle]>>>>],
     responses |-> <<<<"201", [description |-> <<"created">>,
                               content |-> <<<<"application/json",
                                               [schema |-> SchemaAB]>>>>]>>>>]
OpBare == [summary |-> <<"s">>, responses |-> <<>>]

PathItems ==
    {<<<<<<"get">>, OpList>>>>,
     <<<<<<"get">>, OpGet>>>>,
     <<<<<<"get">>, OpGet>>, <<<<"post">>, OpCreate>>>>,
     <<<<<<"get">>, OpBare>>>>}

RunPaths == {P_users, P_user_id, P_user_posts, P_user_profile}

\* documents of up to MaxPaths paths
RunDocs ==
    {d \in UNION {[1..k -> RunPaths \X PathItems] : k \in 0..MaxPaths} :
        \A i, j \in 1..Len(d) : i # j => d[i][1] # d[j][1]}

Values == {None, StrVal(<<"x">>)}

---------------------------------------------------------------------------
(* The run of generate_code *)

InitCommon ==
    /\ pi = 1
    /\ oi = 1
    /\ methods = <<>>
    /\ fs = NoFiles
    /\ writes = <<>>
    /\ err = "none"
    /\ ret = None
    /\ ncalls = 0
    /\ result = None

InitRun ==
    /\ spec \in RunDocs
    /\ input = None
    /\ pc = "paths"
    /\ InitCommon

InitMethod ==
    /\ spec \in MethodDocs
    /\ input = None
    /\ pc = "paths"
    /\ InitCommon

InitSynth ==
    /\ spec = <<>>
    /\ input \in {[fn |-> "_create_model_class", schema |-> sc] : sc \in Schemas} \cup
                 {[fn |-> "_generate_response_model", responses |-> r] : r \in ResponseMaps}
    /\ pc = "synth"
    /\ InitCommon

\* lines 27-30: one element of the list comprehension, _generate_method on
\* the next operation of the current path item
GenerateMethod ==
    /\ pc = "paths"
    /\ pi <= Len(spec)
    /\ oi <= Len(spec[pi][2])
    /\ LET r == GenerateMethodOn([fs |-> fs, writes |-> writes],
                                 spec[pi][2][oi][1], spec[pi][1], spec[pi][2][oi][2])
       IN  /\ fs' = r.st.fs
           /\ writes' = r.st.writes
           /\ IF r.raised # "none"
              THEN /\ pc' = "failed"
                   /\ err' = r.raised
                   /\ UNCHANGED <<oi, methods>>
              ELSE /\ methods' = Append(methods, r.code)
                   /\ oi' = oi + 1
                   /\ UNCHANGED <<pc, err>>
    /\ UNCHANGED <<spec, input, pi, ret, ncalls, result>>

\* lines 32-50 and 20-21: the class text of the current path is assembled
\* and written
EmitClass ==
    /\ pc = "paths"
    /\ pi <= Len(spec)
    /\ oi > Len(spec[pi][2])
    /\ LET st == WriteToFile([fs |-> fs, writes |-> writes],
                             ClassFileName(spec[pi][1]),
                             ClassCode(spec[pi][1], methods))
       IN  /\ fs' = st.fs
           /\ writes' = st.writes
    /\ pi' = pi + 1
    /\ oi' = 1
    /\ methods' = <<>>
    /\ UNCHANGED <<spec, input, pc, err, ret, ncalls, result>>

\* line 23: _generate_init_file
GenerateInitFile ==
    /\ pc = "paths"
    /\ pi > Len(spec)
    /\ LET st == WriteToFile([fs |-> fs, writes |-> writes],
                             InitFileName, InitContent(spec))
       IN  /\ fs' = st.fs
           /\ writes' = st.writes
    /\ pc' = "done"
    /\ UNCHANGED <<spec, input, pi, oi, methods, err, ret, ncalls, result>>

\* a client calls one emitted method of one written unit
CallMethod ==
    /\ pc = "done"
    /\ \E f \in DOMAIN fs :
         \E i \in 1..Len(fs[f]) :
            /\ fs[f][i].kind = "def"
            /\ Runnable(fs[f], i)
            /\ LET code == MethodAt(fs[f], i)
                   sig == Signature(code[1])
                   names == {sig[j].name : j \in 1..Len(sig)}
               IN  \E bound \in [names -> Values] :
                      result' = [file |-> f, line |-> i, bound |-> bound,
                                 sent |-> RunMethod(code, bound)]
    /\ UNCHANGED <<spec, input, pc, pi, oi, methods, fs, writes, err, ret, ncalls>>

\* _generate_response_model invoked on a responses mapping
GenerateResponseModel ==
    /\ pc = "synth"
    /\ input.fn = "_generate_response_model"
    /\ ncalls < MaxCalls
    /\ LET r == GenerateResponseModelOn([fs |-> fs, writes |-> writes], input.responses)
       IN  /\ fs' = r.st.fs
           /\ writes' = r.st.writes
           /\ ret' = r.ret
           /\ err' = r.raised
           /\ pc' = IF r.raised # "none" THEN "failed" ELSE pc
    /\ ncalls' = ncalls + 1
    /\ UNCHANGED <<spec, input, pi, oi, methods, result>>

\* _create_model_class invoked on a schema
CreateModelClass ==
    /\ pc = "synth"
    /\ input.fn = "_create_model_class"
    /\ ncalls < MaxCalls
    /\ LET r == CreateModelClassOn([fs |-> fs, writes |-> writes], input.schema)
       IN  /\ fs' = r.st.fs
           /\ writes' = r.st.writes
           /\ ret' = r.ret
    /\ ncalls' = ncalls + 1
    /\ UNCHANGED <<spec, input, pc, pi, oi, methods, err, result>>

Next == GenerateMethod \/ EmitClass \/ GenerateInitFile \/ CallMethod

NextSynth == GenerateResponseModel \/ CreateModelClass

\* generate_code over documents of several paths
SpecRun == InitRun /\ [][Next]_vars

\* generate_code over documents of one operation
SpecMethod == InitMethod /\ [][Next]_vars

\* the response-model synthesizer's functions invoked directly
SpecSynth == InitSynth /\ [][NextSynth]_vars

Spec == SpecRun

---------------------------------------------------------------------------
(* Properties *)

\* the operation methods[k] was generated from, and its HTTP method
OpOf(k) == spec[pi][2][k][2]
HttpMethodOf(k) == spec[pi][2][k][1]

\* the methods generated so far for the path the run is at
Generated == IF pc = "paths" /\ pi <= Len(spec) THEN 1..Len(methods) ELSE {}

ParametersOf(op) == Get(op, "parameters", <<>>)

LinesOfKind(code, kind) == SelectSeq(code, LAMBDA l : l.kind = kind)

\* C1: the generated method is named exactly the operation's operationId
\* when the operation has one, and the lower-cased HTTP method name when it
\* has none.
C1_MethodNameResolution ==
    \A k \in Generated :
        methods[k][1].a[1] =
            IF "operationId" \in DOMAIN OpOf(k)
            THEN OpOf(k).operationId
            ELSE Lower(HttpMethodOf(k))

SignatureNames(code) ==
    {Signature(code[1])[j].name : j \in 1..Len(Signature(code[1]))}

\* C2: for every parameter with location 'path' and name n, the emitted
\* method has a replace step whose search token is the single-braced
\* placeholder {n}, so that running the method yields the path template
\* with {n} replaced by str of the value n is bound to.
C2_SingleBracePlaceholder ==
    \A k \in Generated :
        \A i \in 1..Len(ParametersOf(OpOf(k))) :
            LET p == ParametersOf(OpOf(k))[i]
            IN  p.in = "path" =>
                    /\ \E j \in 1..Len(methods[k]) :
                           /\ methods[k][j].kind = "path_replace"
                           /\ methods[k][j].a[1] = <<"{">> \o p.name \o <<"}">>
                           /\ methods[k][j].a[2] = p.name
                    /\ \A bound \in [SignatureNames(methods[k]) -> Values] :
                           RunMethod(methods[k], bound).path =
                               StrVal(Replace(spec[pi][1], <<"{">> \o p.name \o <<"}">>,
                                              PyStr(bound[p.name])))

ContentTypes(op) == [i \in 1..Len(op.requestBody.content) |-> op.requestBody.content[i][1]]

\* C3: for an operation that declares a requestBody, generation never fails
\* because of the body's content types; a body declaring only
\* application/json yields exactly one Content-Type assignment, one
\* declaring only unlisted content types yields none.
C3_ContentTypesNeverFail ==
    /\ (pi <= Len(spec) /\ oi <= Len(spec[pi][2])
           /\ "requestBody" \in DOMAIN spec[pi][2][oi][2])
          => err # "KeyError: 'application/json'"
    /\ \A k \in Generated :
          "requestBody" \in DOMAIN OpOf(k) =>
             /\ ContentTypes(OpOf(k)) = <<"application/json">>
                   => Len(LinesOfKind(methods[k], "headers_set")) = 1
             /\ (\A i \in 1..Len(ContentTypes(OpOf(k))) :
                    ContentTypes(OpOf(k))[i] \notin
                        {"application/json", "multipart/form-data"})
                   => Len(LinesOfKind(methods[k], "headers_set")) = 0

\* C4: in a generate_code run every output file name is written at most
\* once.
C4_EachFileWrittenOnce ==
    \A i, j \in 1..Len(writes) : i # j => writes[i].name # writes[j].name

\* the namespace import lines of the index unit
NamespaceImports == Tail(fs[InitFileName])

TopSegments == {PathSegments(spec[i][1])[1] : i \in 1..Len(spec)}

\* C5: the index unit holds the base-client import plus exactly one
\* namespace import line per distinct top-level path segment.
C5_OneImportPerTopSegment ==
    pc = "done" =>
        /\ fs[InitFileName][1] =
               Line(0, "import", <<<<"apiclient_base">>, <<"APIClientBase">>>>)
        /\ Len(NamespaceImports) = Cardinality(TopSegments)
        /\ \A seg \in TopSegments :
               Cardinality({i \in 1..Len(NamespaceImports) :
                   NamespaceImports[i].a[1] = ConvertToClassName(seg)}) = 1

\* the first entry of a responses mapping whose content declares
\* application/json, should one exist
Qualifies(response) ==
    /\ "content" \in DOMAIN response
    /\ \E i \in 1..Len(response.content) : response.content[i][1] = "application/json"

FirstQualifying(responses) ==
    CHOOSE i \in 1..Len(responses) :
        /\ Qualifies(responses[i][2])
        /\ \A j \in 1..(i - 1) : ~Qualifies(responses[j][2])

\* C6: _generate_response_model synthesizes the model from the first entry
\* whose content declares application/json and returns its name; when no
\* entry qualifies (entries with other content types only, or with no
\* content) it returns None, writes nothing and raises nothing.
C6_FirstJsonResponseOrNone ==
    (input # None /\ input.fn = "_generate_response_model" /\ ncalls >= 1) =>
        /\ err = "none"
        /\ IF \E i \in 1..Len(input.responses) : Qualifies(input.responses[i][2])
           THEN /\ ret = StrVal(<<"ResponseModel">>)
                /\ ModelFileName \in DOMAIN fs
                /\ fs[ModelFileName] =
                       ModelCode(Lookup(input.responses[FirstQualifying(input.responses)][2]
                                            .content, "application/json").schema)
           ELSE /\ ret = None
                /\ writes = <<>>

\* C7: _create_model_class declares one field per property in schema
\* order, required (Field(...)) exactly when the property's name is in the
\* schema's required list and optional (Field(None)) otherwise, all
\* optional when the schema has no required list; every invocation on the
\* same schema writes the same text.
C7_ModelFieldsAndIdempotence ==
    (input # None /\ input.fn = "_create_model_class" /\ ncalls >= 1) =>
        LET props == input.schema.properties
            content == fs[ModelFileName]
            Listed(name) ==
                /\ "required" \in DOMAIN input.schema
                /\ \E j \in 1..Len(input.schema.required) : input.schema.required[j] = name
        IN  /\ Len(content) = Len(props) + 1
            /\ content[1].kind = "class"
            /\ \A i \in 1..Len(props) :
                   /\ content[i + 1].kind = "field"
                   /\ content[i + 1].ind = 4
                   /\ content[i + 1].a[1] = props[i][1]
                   /\ content[i + 1].a[3] =
                          IF Listed(props[i][1]) THEN <<"...">> ELSE <<"None">>
            /\ Len(writes) = ncalls
            /\ \A i \in 1..Len(writes) :
                   /\ writes[i].name = ModelFileName
                   /\ writes[i].content = writes[1].content
            /\ ret = StrVal(<<"ResponseModel">>)

\* C7 happens: the synthesizer has run twice on a schema with a required
\* and an optional property.
C7_Witness ==
    /\ input # None
    /\ input.fn = "_create_model_class"
    /\ ncalls = 2
    /\ Len(writes) = 2
    /\ input.schema = SchemaAB
    /\ fs[ModelFileName][2].a[3] = <<"...">>
    /\ fs[ModelFileName][3].a[3] = <<"None">>

\* the operation of a one-operation document, and its query parameters
TheOp == spec[1][2][1][2]
QueryParams == SelectSeq(ParametersOf(TheOp), LAMBDA p : p.in = "query")

\* the entries of the query parameters whose bound value is not None
KeptQuery(bound) ==
    LET kept == SelectSeq(QueryParams, LAMBDA p : ~IsNone(bound[p.name]))
    IN  [i \in 1..Len(kept) |-> <<kept[i].name, bound[kept[i].name]>>]

\* C8: the query mapping a generated method sends is None when no
\* parameter has location 'query'; otherwise it holds exactly the entries
\* of the query parameters whose bound value is not None.
C8_QueryMapping ==
    (result # None /\ Len(spec) = 1 /\ Len(spec[1][2]) = 1) =>
        IF QueryParams = <<>>
        THEN result.sent.params = None
        ELSE result.sent.params = DictVal(KeptQuery(result.bound))

\* the names the emitted method assigns before it builds the query mapping
LocalsBeforeQuery == {<<"path">>, <<"body">>, <<"headers">>}

\* C8 holds of every operation none of whose query parameters carries the
\* name of one of the method's own locals.
C8_QueryMappingUnshadowed ==
    (result # None /\ Len(spec) = 1 /\ Len(spec[1][2]) = 1
        /\ \A i \in 1..Len(QueryParams) : QueryParams[i].name \notin LocalsBeforeQuery) =>
        IF QueryParams = <<>>
        THEN result.sent.params = None
        ELSE result.sent.params = DictVal(KeptQuery(result.bound))

\* the units written for the paths the run has finished
EmittedUnits ==
    {<<p, w>> \in (1..Len(spec)) \X (1..Len(writes)) :
        /\ pc \in {"paths", "done"}
        /\ p < pi
        /\ writes[w].name = ClassFileName(spec[p][1])}

\* the class declarations of a unit are nested one level per path segment
NestedClasses(path, content) ==
    LET classes == LinesOfKind(content, "class")
    IN  /\ Len(classes) = Len(PathSegments(path))
        /\ \A i \in 1..Len(classes) :
               /\ classes[i].ind = 4 * (i - 1)
               /\ classes[i].a[1] = ConvertToClassName(PathSegments(path)[i])

\* every method sits at the innermost level with its body below it
MethodsInnermost(path, item, content) ==
    /\ Len(LinesOfKind(content, "def")) = Len(item)
    /\ \A i \in 1..Len(content) :
           content[i].kind = "def" =>
               /\ content[i].ind = 4 * Len(PathSegments(path))
               /\ \A j \in (i + 1)..MethodEnd(content, i) :
                      content[j].kind # "blank" => content[j].ind > content[i].ind

\* C9: for a path of k >= 1 segments the hierarchy builder emits k class
\* declarations, the i-th indented i-1 levels, keyed by the dot-joined
\* class names, and places every method at the innermost level: its def
\* line indented k levels and every line of its body strictly deeper.
C9_HierarchyAndMethodIndent ==
    /\ \A p \in 1..Len(spec) :
          (pc \in {"paths", "done"} /\ p < pi) => \E w \in 1..Len(writes) : <<p, w>> \in EmittedUnits
    /\ \A u \in EmittedUnits :
          /\ NestedClasses(spec[u[1]][1], writes[u[2]].content)
          /\ MethodsInnermost(spec[u[1]][1], spec[u[1]][2], writes[u[2]].content)

\* the class-declaration part of C9 on its own
C9_ClassNesting ==
    /\ \A p \in 1..Len(spec) :
          (pc \in {"paths", "done"} /\ p < pi) => \E w \in 1..Len(writes) : <<p, w>> \in EmittedUnits
    /\ \A u \in EmittedUnits : NestedClasses(spec[u[1]][1], writes[u[2]].content)

\* C10: after a run every namespace import line 'from .X import X' of the
\* index unit refers to a unit file X.py written during the run.
C10_ImportsResolve ==
    pc = "done" =>
        \A i \in 1..Len(NamespaceImports) :
            \E w \in 1..Len(writes) :
                writes[w].name = NamespaceImports[i].a[1] \o <<".py">>

==========================================================================
